---------------------------- MODULE Spec2Model ----------------------------
(***************************************************************************)
(* A model of the hrut journaling client: the view state and its handlers  *)
(* (client/src/main.ts and the later revision of the same file that adds   *)
(* the new-entry modal, the prompt selector and the analysis call), and    *)
(* the pure calendar, prompt and aggregation functions they use.           *)
(*                                                                         *)
(* Dates.  An ISO date string 'yyyy-MM-dd' is a tuple <<y, m, d>> with m   *)
(* in 1..12.  A JavaScript Date is a local wall-clock value                *)
(* [day |-> n, hour |-> h]: n counts days from 2024-01-01 (a Monday), h is *)
(* the hour of the day; 23:59:59.999 is held as hour 23.                   *)
(***************************************************************************)
EXTENDS Integers, Sequences, FiniteSets, TLC

\* The model's calendar years are 2024 .. 2024 + NumYears - 1.
NumYears == 2

Years == 2024 .. (2024 + NumYears - 1)

Scopes == {"summary", "year", "month", "week", "day"}

---------------------------------------------------------------------------
(* The calendar (what Date and date-fns compute in local time).            *)

IsLeap(y) == (y % 4 = 0 /\ y % 100 # 0) \/ y % 400 = 0

DaysInYear(y) == IF IsLeap(y) THEN 366 ELSE 365

DaysInMonth(y, m) ==
    IF m = 2 THEN (IF IsLeap(y) THEN 29 ELSE 28)
    ELSE IF m \in {4, 6, 9, 11} THEN 30 ELSE 31

RECURSIVE DaysBeforeYearRec(_)
DaysBeforeYearRec(y) ==
    IF y = 2024 THEN 0
    ELSE IF y > 2024 THEN DaysBeforeYearRec(y - 1) + DaysInYear(y - 1)
    ELSE DaysBeforeYearRec(y + 1) - DaysInYear(y)

RECURSIVE DaysBeforeMonthRec(_, _)
DaysBeforeMonthRec(y, m) ==
    IF m = 1 THEN 0 ELSE DaysBeforeMonthRec(y, m - 1) + DaysInMonth(y, m - 1)

\* The two sums above, tabulated once for the years a Date of the model can fall in.
YearTable == [y \in 2020 .. 2031 |-> DaysBeforeYearRec(y)]

MonthTable == [y \in 2020 .. 2031 |-> [m \in 1 .. 12 |-> DaysBeforeMonthRec(y, m)]]

DaysBeforeYear(y) == YearTable[y]

DaysBeforeMonth(y, m) == MonthTable[y][m]

\* new Date(y, m - 1, d): the day number of a calendar date.
DayNumber(y, m, d) == DaysBeforeYear(y) + DaysBeforeMonth(y, m) + (d - 1)

\* Date.getFullYear / getMonth (+1) / getDate of a day number.
YearOf(n) == CHOOSE y \in 2020 .. 2030 :
                 DaysBeforeYear(y) <= n /\ n < DaysBeforeYear(y + 1)

MonthOf(n) ==
    LET y == YearOf(n)
        r == n - DaysBeforeYear(y)
    IN  CHOOSE m \in 1 .. 12 :
            DaysBeforeMonth(y, m) <= r /\ r < DaysBeforeMonth(y, m) + DaysInMonth(y, m)

DateOf(n) == n - DaysBeforeYear(YearOf(n)) - DaysBeforeMonth(YearOf(n), MonthOf(n)) + 1

\* Date.getDay: 0 = Sunday .. 6 = Saturday.
getDay(n) == (n + 1) % 7

\* parseISO('yyyy-MM-dd'): local midnight of that date.
parseISO(s) == [day |-> DayNumber(s[1], s[2], s[3]), hour |-> 0]

\* format(d, 'yyyy-MM-dd')
iso(d) == <<YearOf(d.day), MonthOf(d.day), DateOf(d.day)>>

startOfDay(d) == [day |-> d.day, hour |-> 0]

endOfDay(d) == [day |-> d.day, hour |-> 23]

startOfYear(d) == [day |-> DayNumber(YearOf(d.day), 1, 1), hour |-> 0]

endOfYear(d) == [day |-> DayNumber(YearOf(d.day), 12, 31), hour |-> 23]

startOfMonth(d) == [day |-> DayNumber(YearOf(d.day), MonthOf(d.day), 1), hour |-> 0]

endOfMonth(d) ==
    LET y == YearOf(d.day)
        m == MonthOf(d.day)
    IN  [day |-> DayNumber(y, m, DaysInMonth(y, m)), hour |-> 23]

\* A week that starts on Sunday instead of Monday.
startOfWeekSunday(d, weekStartsOn) ==
    [day |-> d.day - getDay(d.day), hour |-> 0]

\* date-fns startOfWeek: diff = (day < weekStartsOn ? 7 : 0) + day - weekStartsOn.
startOfWeek(d, weekStartsOn) ==
    LET day  == getDay(d.day)
        diff == (IF day < weekStartsOn THEN 7 ELSE 0) + day - weekStartsOn
    IN  [day |-> d.day - diff, hour |-> 0]

\* date-fns endOfWeek: diff = (day < weekStartsOn ? -7 : 0) + 6 - (day - weekStartsOn).
endOfWeek(d, weekStartsOn) ==
    LET day  == getDay(d.day)
        diff == (IF day < weekStartsOn THEN -7 ELSE 0) + 6 - (day - weekStartsOn)
    IN  [day |-> d.day + diff, hour |-> 23]

getDateRange(dateISO, sc) ==
    LET d == parseISO(dateISO)
    IN  CASE sc = "summary" -> [start |-> startOfYear(d), end |-> endOfYear(d)]
          [] sc = "year"    -> [start |-> startOfYear(d), end |-> endOfYear(d)]
          [] sc = "month"   -> [start |-> startOfMonth(d), end |-> endOfMonth(d)]
          [] sc = "week"    -> [start |-> startOfWeek(d, 1), end |-> endOfWeek(d, 1)]
          [] sc = "day"     -> [start |-> startOfDay(d), end |-> endOfDay(d)]
          [] OTHER          -> [start |-> startOfWeek(d, 1), end |-> endOfWeek(d, 1)]

---------------------------------------------------------------------------
(* The host's time zone.  Date.getTime() is UTC, the Date fields are local *)
(* time, and which zone the browser runs in is not the program's choice:   *)
(* "fixed" has no daylight saving, "north" switches like the US (second    *)
(* Sunday of March .. first Sunday of November), "south" like eastern      *)
(* Australia (first Sunday of October .. first Sunday of April).  Time is  *)
(* counted in hours.                                                       *)

TimeZones == {"fixed", "north", "south"}

\* The day number of the k-th Sunday of month m of year y.
nthSunday(y, m, k) ==
    LET first == DayNumber(y, m, 1)
    IN  first + ((7 - getDay(first)) % 7) + 7 * (k - 1)

\* Whether local time d is daylight-saving time in zone tz.
inDST(tz, d) ==
    LET y == YearOf(d.day)
        after(n, h)  == d.day > n \/ (d.day = n /\ d.hour >= h)
        before(n, h) == d.day < n \/ (d.day = n /\ d.hour < h)
    IN  CASE tz = "north" -> after(nthSunday(y, 3, 2), 3) /\ before(nthSunday(y, 11, 1), 2)
          [] tz = "south" -> after(nthSunday(y, 10, 1), 3) \/ before(nthSunday(y, 4, 1), 3)
          [] OTHER        -> FALSE

\* Date.getTime(), in hours.
getTime(tz, d) == d.day * 24 + d.hour - (IF inDST(tz, d) THEN 1 ELSE 0)

---------------------------------------------------------------------------
(* The prompt selector.                                                    *)

Sentiments == {"positive", "neutral", "negative"}

PROMPTS ==
    [daily |->
        [positive |-> <<"What made today feel especially bright?",
                        "Which moment gave you the most energy today?",
                        "What's one thing you're grateful for right now?",
                        "How can you carry today's good vibes forward?">>,
         neutral  |-> <<"What's one small thing that went well today?",
                        "Where did you feel most like yourself today?",
                        "What helped you feel steady today?",
                        "What's something you learned about yourself today?">>,
         negative |-> <<"What's one gentle thing you can do for yourself right now?",
                        "What helped you get through the tough moments today?",
                        "What would make tomorrow feel a little easier?",
                        "What's the smallest step forward you could take?">>],
     weekend |-> <<"Looking back at this week, what pattern do you notice in your emotions?",
                   "What themes kept coming up in your week?",
                   "Which day this week felt most aligned with who you are?",
                   "What would you like to do differently next week?",
                   "What story does your week tell about your growth?">>,
     monthly |-> <<"What emotional journey did you take this month?",
                   "Which themes dominated your month, and how do you feel about them?",
                   "What patterns in your emotions surprise you looking back?",
                   "How have you grown from the beginning of this month?",
                   "What would you like to focus on next month based on your patterns?">>,
     yearly  |-> <<"What's the biggest emotional shift you notice over this year?",
                   "Which themes have been most persistent in your life?",
                   "How has your relationship with yourself evolved?",
                   "What patterns do you see that you want to change or strengthen?",
                   "What story does this year tell about who you're becoming?">>]

\* Math.random() takes the values 0/RandomGrain .. (RandomGrain - 1)/RandomGrain.
RandomGrain == 20

\* Array.prototype.slice(0, n)
slice0(arr, n) == SubSeq(arr, 1, IF Len(arr) < n THEN Len(arr) ELSE n)

Max3(a, b, c) ==
    IF a >= b /\ a >= c THEN a ELSE IF b >= c THEN b ELSE c

\* The dominant sentiment taken over every entry instead of the first three.
getRecentSentimentAll(stateNotes) ==
    IF Len(stateNotes) = 0 THEN "neutral"
    ELSE
        LET count(s) == Cardinality({i \in 1 .. Len(stateNotes) :
                                        stateNotes[i].analysis.sentiment = s})
            max == Max3(count("positive"), count("neutral"), count("negative"))
        IN  IF count("positive") = max THEN "positive"
            ELSE IF count("negative") = max THEN "negative"
            ELSE "neutral"

getRecentSentiment(stateNotes) ==
    IF Len(stateNotes) = 0 THEN "neutral"
    ELSE
        LET recent == slice0(stateNotes, 3)
            count(s) == Cardinality({i \in 1 .. Len(recent) :
                                        recent[i].analysis.sentiment = s})
            max == Max3(count("positive"), count("neutral"), count("negative"))
        IN  IF count("positive") = max THEN "positive"
            ELSE IF count("negative") = max THEN "negative"
            ELSE "neutral"

\* new Date().getDay() is 0 (Sunday), 5 (Friday) or 6 (Saturday).
isWeekend(now) ==
    LET day == getDay(now.day)
    IN  day = 0 \/ day = 5 \/ day = 6

\* PROMPTS.daily[sentiment]: undefined (held as "undefined") for a key the
\* object does not have.
DailyPool(sentiment) ==
    IF sentiment \in DOMAIN PROMPTS.daily THEN PROMPTS.daily[sentiment] ELSE "undefined"

\* promptPool[Math.floor(Math.random() * promptPool.length)] and the string
\* returned; reading .length of undefined throws a TypeError.
PickFrom(tier, random) ==
    IF tier.pool = "undefined"
        THEN [threw |-> TRUE, prefix |-> tier.prefix, prompt |-> "undefined"]
    ELSE [threw |-> FALSE, prefix |-> tier.prefix,
          prompt |-> tier.pool[((random * Len(tier.pool)) \div RandomGrain) + 1]]

\* The monthly test made before the yearly one.
choosePromptMonthFirst(now, tz, stateNotes, random) ==
    LET dayOfMonth == DateOf(now.day)
        jan0       == [day |-> DayNumber(YearOf(now.day), 1, 1) - 1, hour |-> 0]
        dayOfYear  == (getTime(tz, now) - getTime(tz, jan0)) \div 24
        tier == IF dayOfMonth <= 3 \/ dayOfMonth >= 28
                    THEN [pool |-> PROMPTS.monthly, prefix |-> "Monthly reflection: "]
                ELSE IF dayOfYear <= 7 \/ dayOfYear >= 358
                    THEN [pool |-> PROMPTS.yearly, prefix |-> "Year-end reflection: "]
                ELSE IF isWeekend(now)
                    THEN [pool |-> PROMPTS.weekend, prefix |-> "Week reflection: "]
                ELSE [pool |-> DailyPool(getRecentSentiment(stateNotes)),
                      prefix |-> "Daily prompt: "]
    IN  PickFrom(tier, random)

\* choosePrompt at local time `now` in zone tz, with Math.random() returning
\* random / RandomGrain; the string returned is held as its prefix and the
\* prompt after it.
\* The function reads the clock twice (now, and new Date() in isWeekend)
\* within one synchronous call; both reads are the same instant here.
choosePrompt(now, tz, stateNotes, random) ==
    LET dayOfMonth == DateOf(now.day)
        jan0       == [day |-> DayNumber(YearOf(now.day), 1, 1) - 1, hour |-> 0]
        dayOfYear  == (getTime(tz, now) - getTime(tz, jan0)) \div 24
        tier == IF dayOfYear <= 7 \/ dayOfYear >= 358
                    THEN [pool |-> PROMPTS.yearly, prefix |-> "Year-end reflection: "]
                ELSE IF dayOfMonth <= 3 \/ dayOfMonth >= 28
                    THEN [pool |-> PROMPTS.monthly, prefix |-> "Monthly reflection: "]
                ELSE IF isWeekend(now)
                    THEN [pool |-> PROMPTS.weekend, prefix |-> "Week reflection: "]
                ELSE [pool |-> DailyPool(getRecentSentiment(stateNotes)),
                      prefix |-> "Daily prompt: "]
    IN  PickFrom(tier, random)

---------------------------------------------------------------------------
(* The overview aggregator (renderOverview).  Labels are words: no label   *)
(* is an array-index string or the name of a member of Object.prototype,   *)
(* so a counts object lists its keys in the order they were first set.     *)

\* The index of key k in a list of [key, count] entries, 0 when absent.
IndexOfKey(entries, k) ==
    IF \E i \in 1 .. Len(entries) : entries[i].key = k
        THEN CHOOSE i \in 1 .. Len(entries) : entries[i].key = k
    ELSE 0

\* all.forEach(x => { counts[x] = (counts[x] || 0) + 1 }); Object.entries(counts)
RECURSIVE countEntries(_, _)
countEntries(all, entries) ==
    IF all = <<>> THEN entries
    ELSE
        LET k == Head(all)
            i == IndexOfKey(entries, k)
        IN  countEntries(Tail(all),
                IF i = 0 THEN Append(entries, [key |-> k, count |-> 1])
                ELSE [entries EXCEPT ![i].count = @ + 1])

\* An insertion that puts an entry before the entries of equal count.
RECURSIVE insertBeforeEqual(_, _)
insertBeforeEqual(sorted, e) ==
    IF sorted = <<>> THEN <<e>>
    ELSE IF Head(sorted).count - e.count > 0
        THEN <<Head(sorted)>> \o insertBeforeEqual(Tail(sorted), e)
    ELSE <<e>> \o sorted

\* The place of e in a list sorted by (a, b) => b.count - a.count: after
\* every entry that does not sort after it (Array.prototype.sort is stable).
RECURSIVE insertSorted(_, _)
insertSorted(sorted, e) ==
    IF sorted = <<>> THEN <<e>>
    ELSE IF e.count - Head(sorted).count > 0 THEN <<e>> \o sorted
    ELSE <<Head(sorted)>> \o insertSorted(Tail(sorted), e)

RECURSIVE sortByCountDesc(_, _)
sortByCountDesc(entries, sorted) ==
    IF entries = <<>> THEN sorted
    ELSE sortByCountDesc(Tail(entries), insertSorted(sorted, Head(entries)))

\* Object.entries(counts).sort(([,a], [,b]) => b - a).slice(0, 5).map(([k]) => k)
topItems(all) ==
    LET top == slice0(sortByCountDesc(countEntries(all, <<>>), <<>>), 5)
    IN  [i \in 1 .. Len(top) |-> top[i].key]

\* state.notes.forEach(note => allEmotions.push(...note.analysis.emotions))
RECURSIVE allEmotions(_)
allEmotions(stateNotes) ==
    IF stateNotes = <<>> THEN <<>>
    ELSE Head(stateNotes).analysis.emotions \o allEmotions(Tail(stateNotes))

RECURSIVE allThemes(_)
allThemes(stateNotes) ==
    IF stateNotes = <<>> THEN <<>>
    ELSE Head(stateNotes).analysis.themes \o allThemes(Tail(stateNotes))

\* The two lists renderOverview computes for a non-empty state.notes.
aggregate(stateNotes) ==
    [topEmotions |-> topItems(allEmotions(stateNotes)),
     topThemes   |-> topItems(allThemes(stateNotes))]

---------------------------------------------------------------------------
(* The view: state, the entries endpoint, loadEntries and the renderers.   *)
(* Two revisions of main.ts are in the repository: client/src/main.ts      *)
(* ("main.ts") and the one that adds the new-entry modal ("part_000").     *)

Builds == {"main.ts", "part_000"}

perPage == 3

\* The zone the page runs in.
UiZone == "fixed"

\* new Date() while the page is open.
Today == <<2025, 3, 9>>

MonthNames == <<"January", "February", "March", "April", "May", "June", "July",
                "August", "September", "October", "November", "December">>

\* The entries the datastore holds when the page loads.
BaseEntries ==
    << [id |-> "e1", createdAt |-> <<2025, 1, 6>>, text |-> "t1",
        analysis |-> [sentiment |-> "positive", intensity |-> 3,
                      emotions |-> <<"hope">>, themes |-> <<"family">>]],
       [id |-> "e2", createdAt |-> <<2025, 3, 3>>, text |-> "t2",
        analysis |-> [sentiment |-> "neutral", intensity |-> 2,
                      emotions |-> <<"calm">>, themes |-> <<>>]],
       [id |-> "e3", createdAt |-> <<2025, 3, 5>>, text |-> "t3",
        analysis |-> [sentiment |-> "negative", intensity |-> 4,
                      emotions |-> <<"fear">>, themes |-> <<"work", "family">>]],
       [id |-> "e4", createdAt |-> <<2025, 3, 9>>, text |-> "t4",
        analysis |-> [sentiment |-> "positive", intensity |-> 5,
                      emotions |-> <<"joy", "calm">>, themes |-> <<"work">>]],
       [id |-> "e5", createdAt |-> <<2025, 3, 7>>, text |-> "t5",
        analysis |-> [sentiment |-> "neutral", intensity |-> 1,
                      emotions |-> <<>>, themes |-> <<"rest">>]] >>

\* GET /api/entries?scope=..&date=..: the entries of the datastore (held in
\* the order they were stored) whose createdAt lies in the range of the
\* scope, the last stored first.
RECURSIVE EntriesQuery(_, _, _)
EntriesQuery(store, sc, dateISO) ==
    IF store = <<>> THEN <<>>
    ELSE
        LET rest  == EntriesQuery(Tail(store), sc, dateISO)
            e     == Head(store)
            n     == parseISO(e.createdAt).day
            range == getDateRange(dateISO, sc)
        IN  IF range.start.day <= n /\ n <= range.end.day THEN rest \o <<e>> ELSE rest

\* The request loadEntries sends; `by` is the caller of refresh() that waits
\* for it ("page" for a navigation, "save" for the save handler), `stale`
\* records that a request sent later has been answered already.
EntriesRequest(b, sc, dateISO, by) ==
    [scope |-> IF b = "part_000" /\ sc = "summary" THEN "year" ELSE sc,
     date  |-> dateISO,
     by    |-> by,
     stale |-> FALSE]

\* The outcomes of a fetch: a 2xx response, another status, a rejected
\* fetch, and a response whose body cannot be read as JSON.
Outcomes == {"ok", "notok", "neterr", "bodyerr"}

\* A loadEntries that drops the answer to a superseded request.
loadEntriesGuarded(b, req, outcome, payload, st) ==
    IF req.stale THEN [state |-> st, threw |-> FALSE]
    ELSE CASE outcome = "ok"    -> [state |-> [st EXCEPT !.notes = payload, !.page = 1],
                                    threw |-> FALSE]
           [] outcome = "notok" -> [state |-> [st EXCEPT !.notes = <<>>, !.page = 1],
                                    threw |-> FALSE]
           [] OTHER -> IF b = "main.ts"
                           THEN [state |-> [st EXCEPT !.notes = <<>>], threw |-> FALSE]
                       ELSE [state |-> st, threw |-> TRUE]

\* loadEntries from the answer to its request on: the state it leaves and
\* whether it throws.  main.ts catches a rejected fetch or body read (and
\* then skips state.page = 1); part_000 has no try/catch.
loadEntries(b, req, outcome, payload, st) ==
    CASE outcome = "ok"    -> [state |-> [st EXCEPT !.notes = payload, !.page = 1],
                               threw |-> FALSE]
      [] outcome = "notok" -> [state |-> [st EXCEPT !.notes = <<>>, !.page = 1],
                               threw |-> FALSE]
      [] OTHER -> IF b = "main.ts"
                      THEN [state |-> [st EXCEPT !.notes = <<>>], threw |-> FALSE]
                  ELSE [state |-> st, threw |-> TRUE]

\* new Date(t) for a time in hours: the local wall-clock value.
fromTime(tz, t) ==
    LET dst == [day |-> (t + 1) \div 24, hour |-> (t + 1) % 24]
        std == [day |-> t \div 24, hour |-> t % 24]
    IN  IF inDST(tz, dst) THEN dst ELSE std

\* Math.floor((currentWeekStart.getTime() - firstWeekStart.getTime()) / week) + 1
weekOfMonth(tz, d) ==
    LET monthStart       == startOfMonth(d)
        firstWeekStart   == startOfWeek(monthStart, 1)
        currentWeekStart == startOfWeek(d, 1)
    IN  ((getTime(tz, currentWeekStart) - getTime(tz, firstWeekStart)) \div (7 * 24)) + 1

\* The date the [data-week] handler puts in state.dateISO for week w:
\* iso(new Date(firstWeekStart.getTime() + (w - 1) * 7 * 24 * 3600 * 1000))
selectWeek(tz, dateISO, w) ==
    LET d               == parseISO(dateISO)
        monthStart      == startOfMonth(d)
        firstWeekStart  == startOfWeek(monthStart, 1)
        targetWeekStart == fromTime(tz, getTime(tz, firstWeekStart) + (w - 1) * 7 * 24)
    IN  iso(targetWeekStart)

\* format(d, 'MMM do'): "Mar 9th"
formatMMMdo(d) ==
    LET n   == DateOf(d.day)
        suf == IF n % 100 \in 11 .. 13 THEN "th"
               ELSE IF n % 10 = 1 THEN "st"
               ELSE IF n % 10 = 2 THEN "nd"
               ELSE IF n % 10 = 3 THEN "rd" ELSE "th"
        mmm == SubSeq(MonthNames[MonthOf(d.day)], 1, 3)
    IN  mmm \o " " \o ToString(n) \o suf

\* format(d, 'd.M.yyyy'): "9.3.2025"
formatDisplayDate(d) ==
    ToString(DateOf(d.day)) \o "." \o ToString(MonthOf(d.day)) \o "."
        \o ToString(YearOf(d.day))

\* A renderBreadcrumbs that adds the month for every scope but summary.
renderBreadcrumbsMonthOfYear(b, tz, st) ==
    LET d == parseISO(st.dateISO)
    IN  <<[scope |-> "summary", label |-> "Summary"],
          [scope |-> "year", label |-> ToString(YearOf(d.day))]>>
        \o (IF st.scope # "summary"
                THEN <<[scope |-> "month", label |-> MonthNames[MonthOf(d.day)]]>> ELSE <<>>)
        \o (IF st.scope = "week"
                THEN <<[scope |-> "week", label |-> "Week " \o ToString(weekOfMonth(tz, d))]>>
            ELSE IF st.scope = "day"
                THEN <<[scope |-> "day",
                        label |-> IF b = "main.ts" THEN formatMMMdo(d)
                                  ELSE formatDisplayDate(d)]>>
            ELSE <<>>)

\* The items renderBreadcrumbs writes, each with its data-scope; every item
\* gets the click handler.
renderBreadcrumbs(b, tz, st) ==
    LET d == parseISO(st.dateISO)
        year      == ToString(YearOf(d.day))
        monthName == MonthNames[MonthOf(d.day)]
        dayName   == IF b = "main.ts" THEN formatMMMdo(d) ELSE formatDisplayDate(d)
    IN  <<[scope |-> "summary", label |-> "Summary"], [scope |-> "year", label |-> year]>>
        \o (IF st.scope # "summary" /\ st.scope # "year"
                THEN <<[scope |-> "month", label |-> monthName]>> ELSE <<>>)
        \o (IF st.scope = "week"
                THEN <<[scope |-> "week", label |-> "Week " \o ToString(weekOfMonth(tz, d))]>>
            ELSE IF st.scope = "day"
                THEN <<[scope |-> "day", label |-> dayName]>>
            ELSE <<>>)

\* The buttons renderPager writes: "prev" and "next" stand for the two
\* guillemet buttons; a disabled button has no onclick.
renderPager(st) ==
    LET n          == Len(st.notes)
        totalPages == IF n = 0 THEN 1 ELSE (n + perPage - 1) \div perPage
    IN  IF totalPages <= 1 THEN <<>>
        ELSE <<[label |-> "prev", disabled |-> st.page = 1, to |-> st.page - 1]>>
             \o [i \in 1 .. totalPages |->
                    [label |-> ToString(i), disabled |-> FALSE, to |-> i]]
             \o <<[label |-> "next", disabled |-> st.page = totalPages, to |-> st.page + 1]>>

\* Array.prototype.slice(start, end)
sliceFrom(arr, start, end) ==
    SubSeq(arr, start + 1, IF end < Len(arr) THEN end ELSE Len(arr))

\* What renderEntries writes: the "No entries found" message or the cards
\* of the page, and the pager.
renderEntries(st, dm) ==
    IF Len(st.notes) = 0
        THEN [dm EXCEPT !.noEntries = TRUE, !.cards = <<>>, !.pager = renderPager(st)]
    ELSE
        LET start == (st.page - 1) * perPage
        IN  [dm EXCEPT !.noEntries = FALSE,
                       !.cards = sliceFrom(st.notes, start, start + perPage),
                       !.pager = renderPager(st)]

\* The content of a wrap of the overview: the badges or the "No ... detected" text.
Badges(top) ==
    IF Len(top) > 0 THEN [kind |-> "badges", items |-> top]
    ELSE [kind |-> "nodata", items |-> <<>>]

\* What renderOverview writes.  With no entries main.ts returns at once and
\* part_000 writes the two "No ... detected" texts.  (main.ts finds the two
\* wraps by selectors on the page's markup, taken here to match them.)
renderOverview(b, st, dm) ==
    IF Len(st.notes) = 0
        THEN IF b = "main.ts" THEN dm
             ELSE [dm EXCEPT !.emotions = [kind |-> "nodata", items |-> <<>>],
                             !.themes   = [kind |-> "nodata", items |-> <<>>]]
    ELSE [dm EXCEPT !.emotions = Badges(aggregate(st.notes).topEmotions),
                    !.themes   = Badges(aggregate(st.notes).topThemes)]

\* The rest of refresh() once loadEntries has returned.
renderAll(b, tz, st, dm) ==
    renderOverview(b, st,
        renderEntries(st, [dm EXCEPT !.crumbs = renderBreadcrumbs(b, tz, st)]))

\* date-fns setMonth (month in 0..11): the day is cut to the month's length.
setMonth(d, month) ==
    LET y   == YearOf(d.day)
        day == DateOf(d.day)
        dim == DaysInMonth(y, month + 1)
    IN  [day |-> DayNumber(y, month + 1, IF day < dim THEN day ELSE dim), hour |-> d.hour]

\* String.prototype.trim on the texts the model types.
trim(text) == IF text = " " THEN "" ELSE text

DefaultAnalysis == [sentiment |-> "neutral", intensity |-> 2, emotions |-> <<>>, themes |-> <<>>]

\* What the analysis service answers a 2xx with.
ServiceAnalysis == [sentiment |-> "positive", intensity |-> 4,
                    emotions |-> <<"joy">>, themes |-> <<"work">>]

\* An analyzeText that lets the failure out.
analyzeTextRethrow(outcome, result) ==
    IF outcome = "ok" THEN [rejected |-> FALSE, value |-> result]
    ELSE [rejected |-> TRUE, value |-> DefaultAnalysis]

\* analyzeText from the answer of the analysis service on: every failure
\* (the throw on a non-2xx status, a rejected fetch, an unreadable body) is
\* caught and the default analysis returned.
analyzeText(outcome, result) ==
    IF outcome = "ok" THEN [rejected |-> FALSE, value |-> result]
    ELSE [rejected |-> FALSE, value |-> DefaultAnalysis]

\* Every ISO date of the model's years.
AllDates == {<<y, m, d>> \in Years \X (1 .. 12) \X (1 .. 31) : d <= DaysInMonth(y, m)}

---------------------------------------------------------------------------
VARIABLES
    fnIn,     \* the arguments of the pure function under check
    fnPc,     \* "call" before the function has run, "done" after
    fnOut,    \* its result once fnPc = "done"
    build,    \* which revision of main.ts runs
    state,    \* const state: dateISO, scope, notes, page
    dom,      \* what the renderers last wrote: crumbs, cards, pager, overview
    inflight, \* the /api/entries requests not answered yet, oldest first
    store,    \* the entries the datastore holds, in the order stored
    dialog,   \* the <dialog> shown modally: "none", "newEntry" or "entry"
    form,     \* the new-entry modal: entryText, dateInput, suggested, btn
    save,     \* the save handler: where it waits, and its local variables
    clicks,   \* user events handled so far
    last      \* the step taken last: its kind, the request answered, the alert shown

fnVars == <<fnIn, fnPc, fnOut>>

uiVars == <<build, state, dom, inflight, store, dialog, form, save, clicks, last>>

vars == <<fnIn, fnPc, fnOut, build, state, dom, inflight, store, dialog, form, save,
          clicks, last>>

NoRequest == [scope |-> "", date |-> <<>>, by |-> "", stale |-> FALSE]

SaveIdle == [pc |-> "idle", text |-> "", createdAt |-> <<>>, analysis |-> DefaultAnalysis,
             originalText |-> ""]

\* The step record: kind of step, the request it answered and how, the
\* scope and date before it, the alert it showed, whether it rendered.
Step(kind, req, outcome, st, alert, rendered) ==
    [kind |-> kind, req |-> req, outcome |-> outcome, prevScope |-> st.scope,
     prevDate |-> st.dateISO, alert |-> alert, rendered |-> rendered]

\* The page as the markup leaves it, before the module has run.
PageLoaded ==
    /\ dom = [crumbs |-> <<>>, noEntries |-> FALSE, cards |-> <<>>, pager |-> <<>>,
              emotions |-> [kind |-> "static", items |-> <<>>],
              themes |-> [kind |-> "static", items |-> <<>>],
              entryModal |-> "none"]
    /\ store = BaseEntries
    /\ dialog = "none"
    /\ form = [entryText |-> "", dateInput |-> <<>>,
               suggested |-> [threw |-> FALSE, prefix |-> "", prompt |-> ""],
               btn |-> [disabled |-> FALSE, text |-> "Save"]]
    /\ save = SaveIdle
    /\ clicks = 0

\* The view is not running: only a pure function is under check.
UiOff ==
    /\ build = "part_000"
    /\ state = [dateISO |-> Today, scope |-> "week", notes |-> <<>>, page |-> 1]
    /\ PageLoaded
    /\ inflight = <<>>
    /\ last = Step("off", NoRequest, "", state, "none", FALSE)

FnOff == fnIn = [fn |-> "none"] /\ fnPc = "done" /\ fnOut = <<>>

---------------------------------------------------------------------------
(* getDateRange on every date and scope.                                   *)

InitRange ==
    /\ UiOff
    /\ fnIn \in [fn : {"getDateRange"}, dateISO : AllDates, scope : Scopes]
    /\ fnPc = "call"
    /\ fnOut = <<>>

CallGetDateRange ==
    /\ fnIn.fn = "getDateRange"
    /\ fnPc = "call"
    /\ fnPc' = "done"
    /\ fnOut' = getDateRange(fnIn.dateISO, fnIn.scope)
    /\ UNCHANGED <<fnIn, uiVars>>

NextRange == CallGetDateRange

SpecRange == InitRange /\ [][NextRange]_vars

RangeDone == fnIn.fn = "getDateRange" /\ fnPc = "done"

\* C4: for every date d and scope, getDateRange(d, scope) has
\* start <= d <= end as calendar dates; summary and year give Jan 1 .. Dec 31
\* of d's year, month the first .. last day of d's month, day d .. d, and
\* week the most recent Monday <= d .. that Monday + 6 days (a Sunday);
\* 2025-03-09 with scope week gives 2025-03-03 .. 2025-03-09.
C4_RangeContainsDate ==
    RangeDone =>
        LET s  == fnIn.dateISO
            sc == fnIn.scope
            a  == iso(fnOut.start)
            b  == iso(fnOut.end)
            n  == DayNumber(s[1], s[2], s[3])
        IN  /\ fnOut.start.day <= n /\ n <= fnOut.end.day
            /\ sc \in {"summary", "year"} => a = <<s[1], 1, 1>> /\ b = <<s[1], 12, 31>>
            /\ sc = "month" => /\ a = <<s[1], s[2], 1>>
                               /\ b[1] = s[1] /\ b[2] = s[2]
                               /\ iso([day |-> fnOut.end.day + 1, hour |-> 0])[3] = 1
            /\ sc = "day" => a = s /\ b = s
            /\ sc = "week" => /\ getDay(fnOut.start.day) = 1
                              /\ n - fnOut.start.day \in 0 .. 6
                              /\ fnOut.end.day = fnOut.start.day + 6
                              /\ getDay(fnOut.end.day) = 0
            /\ (s = <<2025, 3, 9>> /\ sc = "week") =>
                   a = <<2025, 3, 3>> /\ b = <<2025, 3, 9>>

C4_Witness ==
    /\ RangeDone
    /\ fnIn.dateISO = <<2025, 3, 9>>
    /\ fnIn.scope = "week"
    /\ iso(fnOut.start) = <<2025, 3, 3>>

---------------------------------------------------------------------------
(* choosePrompt on every date of the model's years at the first and last   *)
(* hour of the day, in every zone, over short histories; and on sample     *)
(* days over every history of up to MaxHistory entries.                    *)

MaxHistory == 4

\* Sequences of length 0 .. n over S.
SeqsUpTo(S, n) == UNION {[1 .. k -> S] : k \in 0 .. n}

NoteWithSentiment(sn) == [analysis |-> [sentiment |-> sn]]

Histories(n) ==
    {[i \in 1 .. Len(h) |-> NoteWithSentiment(h[i])] : h \in SeqsUpTo(Sentiments, n)}

\* A Wednesday and a Tuesday of the daily tier, a Friday of the weekend tier.
SampleDays == {<<2025, 3, 12>>, <<2024, 6, 18>>, <<2025, 3, 14>>}

InitPrompt ==
    /\ UiOff
    /\ \E s \in AllDates, h \in {0, 23}, tz \in TimeZones :
         \E hist \in (IF s \in SampleDays THEN Histories(MaxHistory) ELSE Histories(1)) :
            fnIn = [fn |-> "choosePrompt", dateISO |-> s, hour |-> h, tz |-> tz,
                    notes |-> hist]
    /\ fnPc = "call"
    /\ fnOut = <<>>

CallChoosePrompt ==
    /\ fnIn.fn = "choosePrompt"
    /\ fnPc = "call"
    /\ \E random \in 0 .. (RandomGrain - 1) :
          fnOut' = choosePrompt([day |-> parseISO(fnIn.dateISO).day, hour |-> fnIn.hour],
                                fnIn.tz, fnIn.notes, random)
    /\ fnPc' = "done"
    /\ UNCHANGED <<fnIn, uiVars>>

NextPrompt == CallChoosePrompt

SpecPrompt == InitPrompt /\ [][NextPrompt]_vars

PromptDone == fnIn.fn = "choosePrompt" /\ fnPc = "done"

Elems(sq) == {sq[i] : i \in 1 .. Len(sq)}

\* The calendar's day of the year, day of the month and weekday of an ISO date.
CalDayOfYear(s) == DayNumber(s[1], s[2], s[3]) - DayNumber(s[1], 1, 1) + 1

CalTier(s) ==
    IF CalDayOfYear(s) <= 7 \/ CalDayOfYear(s) >= 358 THEN "yearly"
    ELSE IF s[3] <= 3 \/ s[3] >= 28 THEN "monthly"
    ELSE IF getDay(DayNumber(s[1], s[2], s[3])) \in {5, 6, 0} THEN "weekend"
    ELSE "daily"

DominantOfFirstThree(hist) ==
    LET k == IF Len(hist) < 3 THEN Len(hist) ELSE 3
        cnt(sn) == Cardinality({i \in 1 .. k : hist[i].analysis.sentiment = sn})
    IN  IF cnt("positive") >= cnt("neutral") /\ cnt("positive") >= cnt("negative")
            THEN "positive"
        ELSE IF cnt("negative") >= cnt("neutral") THEN "negative"
        ELSE "neutral"

---------------------------------------------------------------------------
(* The aggregation over every list of up to MaxLabels labels, cut into     *)
(* entries of ChunkSize labels each (the last entry may hold fewer); an    *)
(* entry's themes are its emotions read backwards.  The code treats every  *)
(* label alike, so the first label of a list is fixed ("calm") to leave    *)
(* out the renamed copies of each list.                                    *)

MaxLabels == 6

Labels == {"calm", "joy", "fear", "anger", "hope", "grief"}

ChunkSize == 3

Reverse(sq) == [i \in 1 .. Len(sq) |-> sq[Len(sq) + 1 - i]]

\* The entries made of consecutive chunks of `size` labels of `flat`.
Chunked(flat, size) ==
    [i \in 1 .. ((Len(flat) + size - 1) \div size) |->
        LET lo == (i - 1) * size + 1
            hi == IF i * size < Len(flat) THEN i * size ELSE Len(flat)
        IN  [analysis |-> [emotions |-> SubSeq(flat, lo, hi),
                           themes   |-> Reverse(SubSeq(flat, lo, hi))]]]

InitAggregate ==
    /\ UiOff
    /\ \E flat \in {f \in SeqsUpTo(Labels, MaxLabels) : f = <<>> \/ f[1] = "calm"} :
          fnIn = [fn |-> "aggregate", notes |-> Chunked(flat, ChunkSize)]
    /\ fnPc = "call"
    /\ fnOut = <<>>

CallAggregate ==
    /\ fnIn.fn = "aggregate"
    /\ fnPc = "call"
    /\ fnOut' = aggregate(fnIn.notes)
    /\ fnPc' = "done"
    /\ UNCHANGED <<fnIn, uiVars>>

NextAggregate == CallAggregate

SpecAggregate == InitAggregate /\ [][NextAggregate]_vars

AggregateDone == fnIn.fn = "aggregate" /\ fnPc = "done"

\* The places <<entry, index>> where label l occurs in the given field.
Places(stateNotes, field, l) ==
    UNION {{<<i, j>> : j \in {k \in 1 .. Len(stateNotes[i].analysis[field]) :
                                 stateNotes[i].analysis[field][k] = l}} :
           i \in 1 .. Len(stateNotes)}

PlaceBefore(p, q) == p[1] < q[1] \/ (p[1] = q[1] /\ p[2] < q[2])

\* top is the five first labels of the field (all of them when there are
\* fewer) in the order: more frequent first, and among labels as frequent,
\* the one whose first place in the entries comes first.  The order is a
\* strict total order, so neighbours in order and the last of top before
\* every label left out say it for every pair.
IsTopFive(stateNotes, field, top) ==
    LET places  == [l \in Labels |-> Places(stateNotes, field, l)]
        present == {l \in Labels : places[l] # {}}
        cnt     == [l \in Labels |-> Cardinality(places[l])]
        first   == [l \in present |->
                       CHOOSE p \in places[l] :
                           \A q \in places[l] : p = q \/ PlaceBefore(p, q)]
        before(x, y) == cnt[x] > cnt[y]
                            \/ (cnt[x] = cnt[y] /\ PlaceBefore(first[x], first[y]))
    IN  /\ Len(top) = (IF Cardinality(present) < 5 THEN Cardinality(present) ELSE 5)
        /\ \A i \in 1 .. Len(top) : top[i] \in present
        /\ \A i \in 1 .. (Len(top) - 1) : before(top[i], top[i + 1])
        /\ \A l \in present \ Elems(top) : before(top[Len(top)], l)
        /\ \A l \in present :
              (\A m \in present \ {l} : cnt[l] > cnt[m]) => top[1] = l

---------------------------------------------------------------------------
(* The page: user events, and the answers to the requests in flight.  A    *)
(* handler runs up to its next await in one step; the continuation after   *)
(* an awaited fetch is the step that delivers its answer.                  *)

MaxClicks == 2

MaxInflight == 2

MaxSaves == 1

\* The buttons of the date dropdown, and the dates the model stays within.
NavYears == {2025}

NavMonths == {0, 2}

NavWeeks == {1, 2}

DayButtons == {<<2025, 3, 4>>}

InWindow(dateISO) == dateISO[1] \in NavYears

\* Math.random() as the page draws it.
UiRandoms == {0, RandomGrain - 1}

Init ==
    /\ FnOff
    /\ build \in Builds
    /\ PageLoaded
    /\ state = [dateISO |-> Today, scope |-> "week", notes |-> <<>>, page |-> 1]
    /\ inflight = <<EntriesRequest(build, state.scope, state.dateISO, "page")>>
    /\ last = Step("load", NoRequest, "", state, "none", FALSE)

\* A handler of the page can run: no modal dialog covers it.
PageClick == dialog = "none" /\ clicks < MaxClicks

\* state.dateISO = ..; state.scope = ..; refresh() up to the fetch.
Navigate(newDate, newScope) ==
    /\ Len(inflight) < MaxInflight
    /\ InWindow(newDate)
    /\ state' = [state EXCEPT !.dateISO = newDate, !.scope = newScope]
    /\ inflight' = Append(inflight, EntriesRequest(build, newScope, newDate, "page"))
    /\ clicks' = clicks + 1
    /\ last' = Step("click", NoRequest, "", state, "none", FALSE)
    /\ UNCHANGED <<fnVars, build, dom, store, dialog, form, save>>

ClickYear ==
    /\ PageClick
    /\ \E year \in NavYears :
          Navigate(<<year, 1, 1>>, "year")

ClickMonth ==
    /\ PageClick
    /\ \E month \in NavMonths :
          Navigate(iso(startOfMonth(setMonth(parseISO(state.dateISO), month))), "month")

ClickWeek ==
    /\ PageClick
    /\ \E w \in NavWeeks :
          Navigate(selectWeek(UiZone, state.dateISO, w), "week")

ClickDay ==
    /\ PageClick
    /\ \E dayISO \in DayButtons :
          Navigate(dayISO, "day")

\* The click handler renderBreadcrumbs put on item k of the crumbs; a click
\* that finds the scope unchanged is recorded with the item's data-scope.
ClickCrumb ==
    /\ PageClick
    /\ \E k \in 1 .. Len(dom.crumbs) :
          LET newScope == dom.crumbs[k].scope
          IN  IF newScope # state.scope
                  THEN Navigate(state.dateISO, newScope)
              ELSE /\ clicks' = clicks + 1
                   /\ last' = Step("crumb", [NoRequest EXCEPT !.scope = newScope], "",
                                   state, "none", FALSE)
                   /\ UNCHANGED <<fnVars, build, state, dom, inflight, store, dialog,
                                  form, save>>

\* main.ts: a card opens its entry's day.
ClickCardNavigate ==
    /\ build = "main.ts"
    /\ PageClick
    /\ \E k \in 1 .. Len(dom.cards) :
          Navigate(dom.cards[k].createdAt, "day")

\* part_000: a card opens the entry modal.
ClickCardOpen ==
    /\ build = "part_000"
    /\ PageClick
    /\ \E k \in 1 .. Len(dom.cards) :
          dom' = [dom EXCEPT !.entryModal = dom.cards[k].id]
    /\ dialog' = "entry"
    /\ clicks' = clicks + 1
    /\ last' = Step("click", NoRequest, "", state, "none", FALSE)
    /\ UNCHANGED <<fnVars, build, state, inflight, store, form, save>>

\* The onclick of button k of the pager.
ClickPager ==
    /\ PageClick
    /\ \E k \in 1 .. Len(dom.pager) :
          /\ ~dom.pager[k].disabled
          /\ state' = [state EXCEPT !.page = dom.pager[k].to]
          /\ dom' = renderEntries(state', dom)
    /\ clicks' = clicks + 1
    /\ last' = Step("click", NoRequest, "", state, "none", FALSE)
    /\ UNCHANGED <<fnVars, build, inflight, store, dialog, form, save>>

\* Escape closes the open dialog.
CloseDialog ==
    /\ dialog # "none"
    /\ clicks < MaxClicks
    /\ dialog' = "none"
    /\ clicks' = clicks + 1
    /\ last' = Step("click", NoRequest, "", state, "none", FALSE)
    /\ UNCHANGED <<fnVars, build, state, dom, inflight, store, form, save>>

\* The requests left once request i is answered: those sent before it are
\* now superseded.
Answered(i) ==
    [j \in 1 .. (Len(inflight) - 1) |->
        IF j < i THEN [inflight[j] EXCEPT !.stale = TRUE] ELSE inflight[j + 1]]

\* A finally that enables the button and leaves the label of the step in
\* progress on it.
SaveFinallyKeepsLabel == [form EXCEPT !.btn.disabled = FALSE]

\* finally { btn.disabled = false; btn.textContent = originalText || 'Save' }
SaveFinally ==
    [form EXCEPT !.btn = [disabled |-> FALSE,
                          text |-> IF save.originalText = "" THEN "Save"
                                   ELSE save.originalText]]

\* The answer to request i arrives, and the refresh() that waited for it
\* runs on: loadEntries, the three renderers, and for the save handler's
\* refresh the rest of that handler.
Respond(i, outcome) ==
    LET req == inflight[i]
        res == loadEntries(build, req, outcome,
                           EntriesQuery(store, req.scope, req.date), state)
        bySave == req.by = "save"
    IN  /\ state' = res.state
        /\ inflight' = Answered(i)
        /\ dom' = IF res.threw THEN dom ELSE renderAll(build, UiZone, res.state, dom)
        /\ dialog' = IF bySave /\ ~res.threw /\ dialog = "newEntry" THEN "none" ELSE dialog
        /\ form' = IF bySave THEN SaveFinally ELSE form
        /\ save' = IF bySave THEN SaveIdle ELSE save
        /\ last' = Step("response", req, outcome, state,
                        IF bySave /\ res.threw THEN "Could not save entry" ELSE "none",
                        ~res.threw)
        /\ UNCHANGED <<fnVars, build, store, clicks>>

RespOk == \E i \in 1 .. Len(inflight) : Respond(i, "ok")

RespNotOk == \E i \in 1 .. Len(inflight) : Respond(i, "notok")

RespNetErr == \E i \in 1 .. Len(inflight) : Respond(i, "neterr")

RespBodyErr == \E i \in 1 .. Len(inflight) : Respond(i, "bodyerr")

---------------------------------------------------------------------------
(* The new-entry modal and the save handler (part_000).                    *)

TypedTexts == {" ", "note"}

PickedDates == {<<>>, <<2025, 3, 4>>}

\* btnNewEntry: reset() and modal.showModal().
OpenNewEntry ==
    /\ build = "part_000"
    /\ PageClick
    /\ \E random \in UiRandoms :
          form' = [form EXCEPT
                      !.entryText = "",
                      !.dateInput = Today,
                      !.suggested = choosePrompt([day |-> parseISO(Today).day, hour |-> 12],
                                                 UiZone, state.notes, random)]
    /\ dialog' = "newEntry"
    /\ clicks' = clicks + 1
    /\ last' = Step("click", NoRequest, "", state, "none", FALSE)
    /\ UNCHANGED <<fnVars, build, state, dom, inflight, store, save>>

\* The user edits the textarea.
TypeEntry ==
    /\ dialog = "newEntry"
    /\ \E text \in TypedTexts \ {form.entryText} :
          form' = [form EXCEPT !.entryText = text]
    /\ last' = Step("type", NoRequest, "", state, "none", FALSE)
    /\ UNCHANGED <<fnVars, build, state, dom, inflight, store, dialog, save, clicks>>

\* The user edits the date input.
PickDate ==
    /\ dialog = "newEntry"
    /\ \E d \in PickedDates \ {form.dateInput} :
          form' = [form EXCEPT !.dateInput = d]
    /\ last' = Step("type", NoRequest, "", state, "none", FALSE)
    /\ UNCHANGED <<fnVars, build, state, dom, inflight, store, dialog, save, clicks>>

\* btnSaveEntry, up to the await of analyzeText (whose fetch is sent).
ClickSave ==
    /\ dialog = "newEntry"
    /\ ~form.btn.disabled
    /\ clicks < MaxClicks
    /\ LET textToSave == trim(form.entryText)
       IN  IF textToSave = ""
               THEN /\ last' = Step("click", NoRequest, "", state,
                                    "Please write something.", FALSE)
                    /\ UNCHANGED <<form, save>>
           ELSE /\ Len(store) < Len(BaseEntries) + MaxSaves
                /\ form' = [form EXCEPT !.btn = [disabled |-> TRUE, text |-> "Analyzing..."]]
                /\ save' = [pc |-> "analyzing", text |-> textToSave,
                            createdAt |-> IF form.dateInput = <<>> THEN Today
                                          ELSE form.dateInput,
                            analysis |-> DefaultAnalysis,
                            originalText |-> form.btn.text]
                /\ last' = Step("click", NoRequest, "", state, "none", FALSE)
    /\ clicks' = clicks + 1
    /\ UNCHANGED <<fnVars, build, state, dom, inflight, store, dialog>>

\* catch (err) { alert(`Could not save entry: ...`) } finally { ... }
SaveCatch(kind, outcome) ==
    /\ form' = SaveFinally
    /\ save' = SaveIdle
    /\ last' = Step(kind, NoRequest, outcome, state, "Could not save entry", FALSE)

\* The analysis service answers; the handler goes on to the POST of the entry.
Analyzed(outcome) ==
    /\ LET a == analyzeText(outcome, ServiceAnalysis)
       IN  IF a.rejected THEN SaveCatch("analysis", outcome)
           ELSE /\ form' = [form EXCEPT !.btn.text = "Saving..."]
                /\ save' = [save EXCEPT !.pc = "posting", !.analysis = a.value]
                /\ last' = Step("analysis", NoRequest, outcome, state, "none", FALSE)
    /\ UNCHANGED <<fnVars, build, state, dom, inflight, store, dialog, clicks>>

\* The analysis service answers 2xx with a body that parses.
AnalyzeOk ==
    /\ save.pc = "analyzing"
    /\ Analyzed("ok")

\* It answers another status, or the fetch or the reading of the body rejects.
AnalyzeFail ==
    /\ save.pc = "analyzing"
    /\ \E outcome \in Outcomes \ {"ok"} : Analyzed(outcome)

\* The entry the datastore keeps for the payload of the POST.
SavedEntry ==
    [id |-> "s" \o ToString(Len(store) + 1), createdAt |-> save.createdAt,
     text |-> save.text, analysis |-> save.analysis]

\* POST /api/entries/text answers 2xx and its body is read: await refresh()
\* sends the request for the entries.
PostOk ==
    /\ save.pc = "posting"
    /\ Len(inflight) < MaxInflight
    /\ store' = Append(store, SavedEntry)
    /\ inflight' = Append(inflight, EntriesRequest(build, state.scope, state.dateISO, "save"))
    /\ save' = [save EXCEPT !.pc = "refreshing"]
    /\ last' = Step("post", NoRequest, "ok", state, "none", FALSE)
    /\ UNCHANGED <<fnVars, build, state, dom, dialog, form, clicks>>

\* The POST answers 2xx and res.json() rejects.
PostOkBodyErr ==
    /\ save.pc = "posting"
    /\ store' = Append(store, SavedEntry)
    /\ SaveCatch("post", "bodyerr")
    /\ UNCHANGED <<fnVars, build, state, dom, inflight, dialog, clicks>>

\* The POST answers another status: throw new Error(errorText || res.statusText).
PostNotOk ==
    /\ save.pc = "posting"
    /\ SaveCatch("post", "notok")
    /\ UNCHANGED <<fnVars, build, state, dom, inflight, store, dialog, clicks>>

\* The fetch of the POST rejects; the request may have reached the datastore.
PostNetErr ==
    /\ save.pc = "posting"
    /\ \E persisted \in BOOLEAN :
          store' = IF persisted THEN Append(store, SavedEntry) ELSE store
    /\ SaveCatch("post", "neterr")
    /\ UNCHANGED <<fnVars, build, state, dom, inflight, dialog, clicks>>

Next ==
    \/ ClickYear
    \/ ClickMonth
    \/ ClickWeek
    \/ ClickDay
    \/ ClickCrumb
    \/ ClickCardNavigate
    \/ ClickCardOpen
    \/ ClickPager
    \/ CloseDialog
    \/ RespOk
    \/ RespNotOk
    \/ RespNetErr
    \/ RespBodyErr
    \/ OpenNewEntry
    \/ TypeEntry
    \/ PickDate
    \/ ClickSave
    \/ AnalyzeOk
    \/ AnalyzeFail
    \/ PostOk
    \/ PostOkBodyErr
    \/ PostNotOk
    \/ PostNetErr

Spec == Init /\ [][Next]_vars

---------------------------------------------------------------------------
(* The claims about the page.                                              *)

\* The entries of the datastore whose createdAt lies in the range of the
\* view's scope and date.
EntriesInRange ==
    LET range == getDateRange(state.dateISO, state.scope)
    IN  {store[i] : i \in {j \in 1 .. Len(store) :
                              LET n == parseISO(store[j].createdAt).day
                              IN  range.start.day <= n /\ n <= range.end.day}}

\* No request is pending, no save is under way, and the step taken last
\* delivered a 2xx answer to a load.
AtRestAfterLoad ==
    /\ inflight = <<>>
    /\ save.pc = "idle"
    /\ last.kind = "response"
    /\ last.outcome = "ok"

\* C1: state.notes is exactly the set of entries whose createdAt lies in
\* the inclusive [start, end] range resolved for the current state.dateISO
\* and state.scope; stated here for the states the claim can least be
\* excused in, those at rest after a load that succeeded.
C1_NotesMatchRange ==
    AtRestAfterLoad => Elems(state.notes) = EntriesInRange

\* The step taken last delivered a 2xx answer to a request that a request
\* sent later had been answered before.
StaleAnswerDelivered ==
    /\ last.kind = "response"
    /\ last.outcome = "ok"
    /\ last.req.stale

\* C2: there is no request-generation guard: when the answer to a load
\* arrives after the answer to a load started later, it overwrites
\* state.notes with the entries of its own scope and date and resets
\* state.page to 1, while state.scope and state.dateISO stay those of the
\* later navigation.
C2_StaleAnswerOverwrites ==
    StaleAnswerDelivered =>
        /\ state.notes = EntriesQuery(store, last.req.scope, last.req.date)
        /\ state.page = 1
        /\ state.scope = last.prevScope
        /\ state.dateISO = last.prevDate

\* The late answer was for another scope than the one on display, and the
\* entries it leaves are not those of the scope on display.
C2_Witness ==
    /\ StaleAnswerDelivered
    /\ last.req.by = "page"
    /\ last.req.scope # state.scope
    /\ state.notes # <<>>
    /\ Elems(state.notes) # EntriesInRange

\* C3: no handler writes state.scope, state.dateISO, state.notes or
\* state.page between the moment another handler's refresh() issues its
\* fetch and the moment that refresh() finishes rendering: a step taken
\* while a request is pending, other than the delivery of an answer,
\* leaves state alone.
C3_NoWriteWhileLoading ==
    [][(inflight # <<>> /\ last'.kind # "response") => state' = state]_vars

\* C8: when a refresh completes with state.notes empty, labels aggregated
\* from a previously displayed, non-empty entry list are not left on
\* display in the overview.
C8_NoStaleLabels ==
    (last.kind = "response" /\ last.rendered /\ state.notes = <<>>) =>
        /\ dom.emotions.kind # "badges"
        /\ dom.themes.kind # "badges"

\* C9: every failed entry load (a non-2xx response, a rejected fetch, a
\* body that cannot be read) leaves state.notes empty, never the entries
\* of the scope displayed before, and the views are re-rendered.
C9_FailedLoadShowsEmpty ==
    (last.kind = "response" /\ last.outcome # "ok") =>
        /\ state.notes = <<>>
        /\ last.rendered

\* C10: analyzeText never rejects: when the analysis service fails, the
\* save of a non-empty text goes on to the POST of the entry with the
\* default analysis, and no alert is shown.
C10_AnalysisFailureAbsorbed ==
    (last.kind = "analysis" /\ last.outcome # "ok") =>
        /\ save.pc = "posting"
        /\ save.text # ""
        /\ save.analysis = DefaultAnalysis
        /\ last.alert = "none"
        /\ form.btn.text = "Saving..."

\* The fetch of the analysis was rejected, and the handler waits for the
\* answer to the POST of the entry with the default analysis.
C10_Witness ==
    /\ last.kind = "analysis"
    /\ last.outcome = "neterr"
    /\ save.pc = "posting"
    /\ save.text = "note"
    /\ save.analysis = DefaultAnalysis
    /\ last.alert = "none"

\* The step taken is the save handler's catch after the POST of the entry
\* answered a non-2xx status or its fetch was rejected.
PostFailed(outcome) ==
    /\ save.pc = "posting"
    /\ last'.kind = "post"
    /\ last'.outcome = outcome

\* C11: when the POST of the entry returns a non-2xx status or fails at
\* the transport level, the alert "Could not save entry" is shown, the
\* new-entry modal stays as it was, no refresh is performed (no request for
\* the entries is sent, state and the rendered page are untouched), and the
\* save button is enabled again with its original label.
C11_PostFailureAlerts ==
    [][(PostFailed("notok") \/ PostFailed("neterr")) =>
          /\ last'.alert = "Could not save entry"
          /\ dialog' = dialog
          /\ inflight' = inflight
          /\ state' = state
          /\ dom' = dom
          /\ save'.pc = "idle"
          /\ ~form'.btn.disabled
          /\ form'.btn.text = save.originalText
          /\ form'.btn.text = "Save"]_vars

\* The POST answered a non-2xx status: the alert is up, the modal is open
\* and the button reads "Save" again.
C11_Witness ==
    /\ last.kind = "post"
    /\ last.outcome = "notok"
    /\ last.alert = "Could not save entry"
    /\ dialog = "newEntry"
    /\ form.btn = [disabled |-> FALSE, text |-> "Save"]
    /\ save.pc = "idle"

\* The crumbs a rendering writes for the state st.
CrumbsShow(st, crumbs) ==
    LET scopesShown == {crumbs[i].scope : i \in 1 .. Len(crumbs)}
        n           == Len(crumbs)
    IN  /\ n >= 2
        /\ crumbs[1] = [scope |-> "summary", label |-> "Summary"]
        /\ crumbs[2] = [scope |-> "year", label |-> ToString(st.dateISO[1])]
        /\ \A i \in 3 .. n : crumbs[i].scope \in {"month", "week", "day"}
        /\ "month" \in scopesShown <=> st.scope \in {"week", "month", "day"}
        /\ "week" \in scopesShown <=> st.scope = "week"
        /\ "day" \in scopesShown <=> st.scope = "day"
        /\ n = (IF st.scope \in {"week", "day"} THEN 4
                ELSE IF st.scope = "month" THEN 3 ELSE 2)
        /\ st.scope \in {"week", "month", "day"} =>
               crumbs[3] = [scope |-> "month", label |-> MonthNames[st.dateISO[2]]]
        /\ st.scope = "week" =>
               crumbs[4].scope = "week" /\ SubSeq(crumbs[4].label, 1, 5) = "Week "
        /\ st.scope = "day" => crumbs[4].scope = "day"

\* C12: the breadcrumbs a refresh renders start with "Summary" and the year
\* of state.dateISO; the month is there exactly when the scope is week,
\* month or day, "Week N" exactly when it is week, the day exactly when it
\* is day; and a click on the crumb of the current scope changes nothing
\* and sends no request.
C12_BreadcrumbsFollowScope ==
    /\ []((last.kind = "response" /\ last.rendered) => CrumbsShow(state, dom.crumbs))
    /\ [][(last'.kind = "crumb" /\ last'.req.scope = state.scope) =>
             /\ state' = state
             /\ inflight' = inflight
             /\ dom' = dom]_vars

\* The week's crumbs are on display and the user has clicked "Week 2".
C12_Witness ==
    /\ last.kind = "crumb"
    /\ last.req.scope = "week"
    /\ state.scope = "week"
    /\ inflight = <<>>
    /\ dom.crumbs = <<[scope |-> "summary", label |-> "Summary"],
                      [scope |-> "year", label |-> "2025"],
                      [scope |-> "month", label |-> "March"],
                      [scope |-> "week", label |-> "Week 2"]>>

---------------------------------------------------------------------------
(* The week of the month, on every date of the model's years in every zone. *)

\* The week buttons of the date dropdown.
WeekButtons == 1 .. 5

InitWeek ==
    /\ UiOff
    /\ \/ fnIn \in [fn : {"weekOfMonth"}, dateISO : AllDates, tz : TimeZones]
       \/ fnIn \in [fn : {"selectWeek"}, dateISO : AllDates, tz : TimeZones,
                     w : WeekButtons, build : Builds]
    /\ fnPc = "call"
    /\ fnOut = <<>>

CallWeekOfMonth ==
    /\ fnIn.fn = "weekOfMonth"
    /\ fnPc = "call"
    /\ fnPc' = "done"
    /\ fnOut' = weekOfMonth(fnIn.tz, parseISO(fnIn.dateISO))
    /\ UNCHANGED <<fnIn, uiVars>>

\* The [data-week] handler and the rendering of the crumbs that follows.
CallSelectWeek ==
    /\ fnIn.fn = "selectWeek"
    /\ fnPc = "call"
    /\ fnPc' = "done"
    /\ LET dateISO == selectWeek(fnIn.tz, fnIn.dateISO, fnIn.w)
       IN  fnOut' = [dateISO |-> dateISO,
                     crumbs  |-> renderBreadcrumbs(fnIn.build, fnIn.tz,
                                     [dateISO |-> dateISO, scope |-> "week",
                                      notes |-> <<>>, page |-> 1])]
    /\ UNCHANGED <<fnIn, uiVars>>

NextWeek == CallWeekOfMonth \/ CallSelectWeek

SpecWeek == InitWeek /\ [][NextWeek]_vars

WeekDone == fnIn.fn = "weekOfMonth" /\ fnPc = "done"

\* Whole 7-day weeks from the Monday on or before the 1st of the month of
\* the ISO date s to the Monday on or before s.
WeeksIntoMonth(s) ==
    LET d     == parseISO(s)
        first == startOfWeek(startOfMonth(d), 1)
        cur   == startOfWeek(d, 1)
    IN  (cur.day - first.day) \div 7

\* C13: the week-of-month label of a date d is 1 + the number of whole
\* 7-day weeks between the Monday-aligned week start of the 1st of d's
\* month and the Monday-aligned week start of d; it is 1 for every d fewer
\* than 7 days after that first week start, and always between 1 and 6.
C13_WeekOfMonthCountsWeeks ==
    WeekDone =>
        LET d     == parseISO(fnIn.dateISO)
            first == startOfWeek(startOfMonth(d), 1)
        IN  /\ fnOut = 1 + WeeksIntoMonth(fnIn.dateISO)
            /\ d.day - first.day < 7 => fnOut = 1
            /\ fnOut \in 1 .. 6

\* The same, where the clock is never changed.
C13_HoldsWithoutClockChange ==
    (WeekDone /\ fnIn.tz = "fixed") => fnOut = 1 + WeeksIntoMonth(fnIn.dateISO)

SelectDone == fnIn.fn = "selectWeek" /\ fnPc = "done"

\* C15: selecting week w (1..5) while the view is on a date of month M of
\* year Y puts the view on a date for which the crumbs show the year Y,
\* the month M and the label "Week w".
C15_SelectWeekShowsWeek ==
    SelectDone =>
        /\ Len(fnOut.crumbs) = 4
        /\ fnOut.crumbs[2].label = ToString(fnIn.dateISO[1])
        /\ fnOut.crumbs[3].label = MonthNames[fnIn.dateISO[2]]
        /\ fnOut.crumbs[4].label = "Week " \o ToString(fnIn.w)

\* The same for the weeks 2 .. 4, where the clock is never changed.
C15_HoldsForInnerWeeks ==
    (SelectDone /\ fnIn.tz = "fixed" /\ fnIn.w \in 2 .. 4) =>
        /\ fnOut.crumbs[3].label = MonthNames[fnIn.dateISO[2]]
        /\ fnOut.crumbs[4].label = "Week " \o ToString(fnIn.w)

---------------------------------------------------------------------------
(* The page of the entries list (checked on the page, under Spec).         *)

\* Math.max(1, Math.ceil(state.notes.length / state.perPage))
TotalPagesOf(st) ==
    IF Len(st.notes) = 0 THEN 1 ELSE (Len(st.notes) + perPage - 1) \div perPage

\* C14: in every reachable state state.page is an integer with
\* 1 <= state.page <= max(1, ceil(state.notes.length / state.perPage)).
C14_PageWithinRange == state.page \in 1 .. TotalPagesOf(state)

---------------------------------------------------------------------------
(* The save of an entry that the server has stored.                        *)

\* The step taken last delivered the answer to the reload that follows a
\* 2xx answer to the POST of the entry.
ReloadAfterSaveAnswered ==
    /\ last.kind = "response"
    /\ last.req.by = "save"

\* C16: the "Could not save entry" alert is shown only if the entry was
\* not persisted: once the POST has returned 2xx, the handler closes the
\* modal and shows no save-failure alert, whatever the outcome of the
\* reload of the entries that follows.
C16_NoAlertOncePersisted ==
    ReloadAfterSaveAnswered =>
        /\ last.alert = "none"
        /\ dialog # "newEntry"

===========================================================================
